---- MODULE Spec2Model ----
(***************************************************************************)
(* Context / resource lifetime layer of accel (accel/src/device.rs,        *)
(* accel/src/memory/host.rs).                                              *)
(*                                                                         *)
(* The native driver is the environment.  Its per-thread "current context" *)
(* stack is the variable `stack`; every native entry point is an operator  *)
(* named after the entry point, and the Rust functions that wrap them are  *)
(* operators named after the Rust functions.  A Rust function that can end *)
(* in more than one way (a native call that may fail, a build-dependent    *)
(* arithmetic overflow) is the SET of its outcomes; the action that models *)
(* a call picks one outcome.                                               *)
(***************************************************************************)
EXTENDS Integers, Sequences, FiniteSets, TLC

\* ---------------------------------------------------------------- bounds
MaxCtx == 2        \* native contexts ever created
MaxDepth == 2      \* entries left on the threads' context stacks between calls, in total
MaxGuards == 1     \* ContextGuard values alive at once
MaxLen == 3        \* largest element count passed to PageLockedMemory::new
UsizeBits == 3     \* width of usize in the model (arithmetic is mod 2^UsizeBits)
MaxDev == 2        \* largest device count the driver reports
MaxId == 2         \* largest id passed to Device::nth
MaxDevObj == 2     \* Device values obtained per id (counted up to this)
MaxInit == 2       \* cuInit calls counted up to this
MaxArcs == 2       \* Arc<Context> handles user code holds on one context
MaxWork == 2       \* work items enqueued on the streams
MaxRec == 1        \* Event::record calls
MaxKernels == 2    \* kernels launched in one context and not completed yet

\* Two OS threads.  The driver keeps one stack per thread and no operation
\* reads or writes the stack of a thread other than its caller.
Threads == {1, 2}
Ptrs == 1..MaxCtx
NULL == 0
Usize == 2 ^ UsizeBits
Streams == {1, 2}              \* two Stream values
Events == {1}                  \* one Event value
ElemSizes == {1, 4}            \* size_of::<u8>(), size_of::<i32>()

VARIABLES
    stack,     \* [Threads -> Seq(Ptrs)]: the driver's context stack of each thread, top last
    ctx,       \* [Ptrs -> {"none","live","destroyed","leaked"}]: state of each native context
    arcs,      \* [Ptrs -> Nat]: Arc<Context> handles held by user code
    guards,    \* [Ptrs -> Nat]: ContextGuard values alive (each holds one more Arc)
    mems,      \* the PageLockedMemory values alive (the model holds one at a time:
               \* buffers share no state with each other)
    last,      \* the operation that completed last: caller, arguments, outcome, native calls
    once,      \* DRIVER_API_INIT: "INCOMPLETE", "RUNNING", "COMPLETE" or "POISONED"
    pc,        \* [Threads -> position inside Device::get_count / Device::nth]
    call,      \* [Threads -> the Device call the thread is inside]
    ninit,     \* number of cuInit calls issued
    ndev,      \* number of devices the driver reports
    devs,      \* [0..MaxId -> Nat]: Device values obtained, per id
    refs,      \* the ContextRef values alive: the handle each one carries, and
               \* what became of the Context it was taken from ("live", or
               \* what its drop made of the native context)
    scoped,    \* [Threads -> Seq]: the guards a thread holds in `let _g = ..`
               \* bindings, innermost last, each with the stack its push found
    queue,     \* [Streams -> Seq]: the items of each stream the device has not
               \* finished yet, oldest first: work, event records, event waits
    running,   \* the work items the device has begun and not completed
    completed, \* the work items the device has completed
    evrec,     \* [Events -> the latest record of the event, 0 before the first]
    reached,   \* the records the device has reached
    issued,    \* what the host has asked for so far: the work items enqueued
               \* per stream, the work that preceded each record on its stream,
               \* the records each stream was told to wait for, and for each
               \* work item the work those records cover
    nwork,     \* work items enqueued
    nrec,      \* records made
    work,      \* [Ptrs -> Nat]: kernels launched in a context and not completed
    modules    \* the Module values alive, each with the context it was loaded into

vars == <<stack, ctx, arcs, guards, mems, last, once, pc, call, ninit, ndev, devs,
          refs, scoped, queue, running, completed, evrec, reached, issued, nwork, nrec,
          work, modules>>
ctxVars == <<stack, ctx, arcs, guards, mems, refs>>
strVars == <<queue, running, completed, evrec, reached, issued, nwork, nrec>>
gpuVars == <<work, modules>>
extVars == <<scoped, strVars, gpuVars>>
devVars == <<once, pc, call, ninit, ndev, devs>>

\* ---------------------------------------------------------------- helpers
Top(stk) == IF stk = <<>> THEN NULL ELSE stk[Len(stk)]
Front(stk) == IF stk = <<>> THEN <<>> ELSE SubSeq(stk, 1, Len(stk) - 1)

\* one native call: its name, its argument, and the context that was current
\* on the calling thread when it was issued
Native(name, arg, cur) == [call |-> name, arg |-> arg, cur |-> cur]

NoCall == [op |-> "none", id |-> 0]
NoMem == [ptr |-> NULL, size |-> 0, esz |-> 0, bytes |-> 0, context |-> NULL]
\* `last`: thread, op, ctx, arg, esz are the call; result and out its outcome;
\* pre the caller's stack when it was made; trace the native calls it issued.
\* paired says that a pop (or a guard's drop) directly follows the successful
\* push (or guard creation) of the same context on the same thread, and base
\* is then the stack that push found.
NoOp == [thread |-> 0, op |-> "none", ctx |-> NULL, arg |-> 0, esz |-> 0,
         result |-> "none", out |-> 0, pre |-> <<>>, trace |-> <<>>,
         paired |-> FALSE, base |-> <<>>]

Done(t, op, c, arg, esz, result, out, pre, trace) ==
    [thread |-> t, op |-> op, ctx |-> c, arg |-> arg, esz |-> esz,
     result |-> result, out |-> out, pre |-> pre, trace |-> trace,
     paired |-> FALSE, base |-> <<>>]

\* the pop on thread t for context c undoes the operation `opening` that came last
Follows(t, c, opening) ==
    /\ last.op = opening /\ last.result = "ok"
    /\ last.thread = t /\ last.ctx = c

Paired(rec, t, c, opening) ==
    IF Follows(t, c, opening)
    THEN [rec EXCEPT !.paired = TRUE, !.base = last.pre]
    ELSE rec


\* ---------------------------------------------------------------- native driver
\* cuCtxPushCurrent: pushes a valid context on the calling thread's stack;
\* a handle whose context was destroyed is rejected.
cuCtxPushCurrent_v2(stk, ptr) ==
    IF ctx[ptr] \in {"live", "leaked"}
    THEN [err |-> FALSE, stack |-> Append(stk, ptr)]
    ELSE [err |-> TRUE, stack |-> stk]

\* cuCtxPopCurrent: pops the top of the calling thread's stack and passes it
\* back.  With nothing current the driver either reports an error or passes
\* back a null handle; the wrapper handles both, so both are outcomes.
cuCtxPopCurrent_v2(stk) ==
    IF stk = <<>>
    THEN {[err |-> TRUE, ptr |-> NULL, stack |-> stk],
          [err |-> FALSE, ptr |-> NULL, stack |-> stk]}
    ELSE {[err |-> FALSE, ptr |-> Top(stk), stack |-> Front(stk)]}

\* cuCtxCreate: creates a context and makes it current on the calling thread
\* (pushes it), or fails and leaves the stack alone.
cuCtxCreate_v2(stk, fresh) ==
    {[err |-> FALSE, ptr |-> fresh, stack |-> Append(stk, fresh)],
     [err |-> TRUE, ptr |-> NULL, stack |-> stk]}

\* cuCtxSynchronize: blocks until the work of the context current on the
\* calling thread is done, so it returns success only when none is left; a
\* device-side fault is reported as an error, and so is a call with no
\* context current.
cuCtxSynchronize(cur) ==
    IF cur # NULL /\ work[cur] = 0
    THEN {[err |-> FALSE], [err |-> TRUE]}
    ELSE {[err |-> TRUE]}

\* cuCtxDestroy: destroys the context; when it is current on the calling
\* thread it is also popped from that thread's stack.  May fail.
cuCtxDestroy_v2(stk, ptr) ==
    {[err |-> FALSE, stack |-> IF Top(stk) = ptr THEN Front(stk) ELSE stk],
     [err |-> TRUE, stack |-> stk]}

\* cuCtxGetApiVersion: reports the version of the context behind the handle,
\* or fails.  The handle of a destroyed context dangles: the driver may detect
\* that and fail, or read whatever the handle points at and report success.
cuCtxGetApiVersion(ptr) ==
    IF ctx[ptr] = "none" THEN {[err |-> TRUE]}
    ELSE {[err |-> FALSE], [err |-> TRUE]}

\* cuMemAllocHost / cuMemFreeHost: may succeed or fail for any request.
cuMemAllocHost_v2(bytes) == {[err |-> FALSE, bytes |-> bytes], [err |-> TRUE, bytes |-> 0]}
cuMemFreeHost == {[err |-> FALSE], [err |-> TRUE]}

\* ---------------------------------------------------------------- ContextImpl
PushFailed == "panic: Failed to push context"
PopFailed == "panic: Failed to pop current context"
NoCurrent == "panic: No current context"
PopMismatch == "panic: Pop must return same pointer"

\* push that refuses a context that is on the caller's stack already
push_once(stk, self) ==
    LET r == cuCtxPushCurrent_v2(stk, self)
        dup == \E i \in 1..Len(stk) : stk[i] = self
    IN  [stack |-> IF dup THEN stk ELSE r.stack,
         result |-> IF dup \/ r.err THEN PushFailed ELSE "ok",
         trace |-> <<Native("cuCtxPushCurrent_v2", self, Top(stk))>>]

\* ContextImpl::push: the outcome of pushing `self` on stack `stk`
push(stk, self) ==
    LET r == cuCtxPushCurrent_v2(stk, self)
    IN  [stack |-> r.stack,
         result |-> IF r.err THEN PushFailed ELSE "ok",
         trace |-> <<Native("cuCtxPushCurrent_v2", self, Top(stk))>>]

\* pop that reads the current context and leaves it on the stack
pop_peek(stk, self) ==
    { [stack |-> stk,
       result |-> IF r.err THEN PopFailed
                  ELSE IF r.ptr = NULL THEN NoCurrent
                  ELSE IF r.ptr # self THEN PopMismatch
                  ELSE "ok",
       trace |-> <<Native("cuCtxPopCurrent_v2", r.ptr, Top(stk))>>]
      : r \in cuCtxPopCurrent_v2(stk) }

\* pop without the assertion on the handle passed back
pop_noassert(stk, self) ==
    { [stack |-> r.stack,
       result |-> IF r.err THEN PopFailed
                  ELSE IF r.ptr = NULL THEN NoCurrent
                  ELSE "ok",
       trace |-> <<Native("cuCtxPopCurrent_v2", r.ptr, Top(stk))>>]
      : r \in cuCtxPopCurrent_v2(stk) }

\* ContextImpl::pop: the outcomes of popping on behalf of `self`
pop(stk, self) ==
    { [stack |-> r.stack,
       result |-> IF r.err THEN PopFailed
                  ELSE IF r.ptr = NULL THEN NoCurrent
                  ELSE IF r.ptr # self THEN PopMismatch
                  ELSE "ok",
       trace |-> <<Native("cuCtxPopCurrent_v2", r.ptr, Top(stk))>>]
      : r \in cuCtxPopCurrent_v2(stk) }

\* sync that synchronizes whatever context is current
sync_nopush(stk, self) ==
    { [stack |-> stk, result |-> IF s.err THEN "Err" ELSE "ok",
       trace |-> <<Native("cuCtxSynchronize", 0, Top(stk))>>]
      : s \in cuCtxSynchronize(Top(stk)) }

\* ContextImpl::sync: push, cuCtxSynchronize, pop; `?` returns early on error
sync(stk, self) ==
    LET p == push(stk, self)
        syn == Native("cuCtxSynchronize", 0, Top(p.stack))
    IN  IF p.result # "ok" THEN {p}
        ELSE UNION { IF s.err
                     THEN {[stack |-> p.stack, result |-> "Err",
                            trace |-> p.trace \o <<syn>>]}
                     ELSE {[stack |-> q.stack, result |-> q.result,
                            trace |-> p.trace \o <<syn>> \o q.trace]
                           : q \in pop(p.stack, self)}
                   : s \in cuCtxSynchronize(Top(p.stack)) }

VersionFailed == "panic: Failed to get Driver API version"

\* ContextImpl::version: cuCtxGetApiVersion on self.get_ptr(), no push or pop
version(self) ==
    { [result |-> IF r.err THEN VersionFailed ELSE "ok",
       trace |-> <<Native("cuCtxGetApiVersion", self, NULL)>>]
      : r \in cuCtxGetApiVersion(self) }

\* PartialEq<ContextRef> for Context and PartialEq<Context> for ContextRef:
\* both compare the handles
Context_eq(c, r) == c = r.ptr
ContextRef_eq(r, c) == r.ptr = c

\* Context::create: cuCtxCreate makes the new context current, create pops it
CreateFailed == "panic: Failed to create a new context"
CreateNull == "panic: Cannot crate a new context"

\* create that leaves the new context current
create_nopop(stk, fresh) ==
    { IF r.err
      THEN [stack |-> r.stack, result |-> CreateFailed, ptr |-> NULL,
            trace |-> <<Native("cuCtxCreate_v2", r.ptr, Top(stk))>>]
      ELSE [stack |-> r.stack, result |-> "ok", ptr |-> r.ptr,
            trace |-> <<Native("cuCtxCreate_v2", r.ptr, Top(stk))>>]
      : r \in cuCtxCreate_v2(stk, fresh) }

create(stk, fresh) ==
    UNION { LET crt == Native("cuCtxCreate_v2", r.ptr, Top(stk))
            IN  IF r.err
                THEN {[stack |-> r.stack, result |-> CreateFailed, ptr |-> NULL,
                       trace |-> <<crt>>]}
                ELSE IF r.ptr = NULL
                THEN {[stack |-> r.stack, result |-> CreateNull, ptr |-> NULL,
                       trace |-> <<crt>>]}
                ELSE {[stack |-> q.stack, result |-> q.result, ptr |-> r.ptr,
                       trace |-> <<crt>> \o q.trace]
                      : q \in pop(r.stack, r.ptr)}
          : r \in cuCtxCreate_v2(stk, fresh) }

\* Drop for Context: cuCtxDestroy, a failure is logged and swallowed
drop_Context(stk, ptr) ==
    { [stack |-> r.stack,
       state |-> IF r.err THEN "leaked" ELSE "destroyed",
       logged |-> r.err,
       trace |-> <<Native("cuCtxDestroy_v2", ptr, Top(stk))>>]
      : r \in cuCtxDestroy_v2(stk, ptr) }

\* Arc<Context>: strong count = handles held by user code + handles held by guards
strong(c) == arcs[c] + guards[c]


\* ---------------------------------------------------------------- PageLockedMemory
ZeroSized == "panic: Zero-sized malloc is forbidden"
AllocFailed == "panic: Cannot allocate page-locked memory"
MulOverflow == "panic: attempt to multiply with overflow"
Abort == "abort: panic in a destructor during unwinding"

\* size * size_of::<T>() in usize: a build with overflow checks panics when
\* the product does not fit, a build without them wraps
usize_mul(a, b) ==
    IF a * b >= Usize
    THEN {[panic |-> TRUE, val |-> 0], [panic |-> FALSE, val |-> (a * b) % Usize]}
    ELSE {[panic |-> FALSE, val |-> a * b]}

\* new with explicit push and pop in place of the guard: a panic skips the pop
new_leak(stk, context, size, esz) ==
    IF ~(size > 0)
    THEN {[stack |-> stk, result |-> ZeroSized, bytes |-> 0, trace |-> <<>>]}
    ELSE
    LET g == push(stk, context)
    IN  UNION { IF m.panic
                THEN {[stack |-> g.stack, result |-> MulOverflow, bytes |-> 0,
                       trace |-> g.trace]}
                ELSE UNION { LET a == Native("cuMemAllocHost_v2", m.val, Top(g.stack))
                             IN  IF r.err
                                 THEN {[stack |-> g.stack, result |-> AllocFailed,
                                        bytes |-> 0, trace |-> g.trace \o <<a>>]}
                                 ELSE {[stack |-> q.stack, result |-> q.result,
                                        bytes |-> r.bytes,
                                        trace |-> g.trace \o <<a>> \o q.trace]
                                       : q \in pop(g.stack, context)}
                           : r \in cuMemAllocHost_v2(m.val) }
              : m \in usize_mul(size, esz) }

\* new without the assertion on size
new_noassert(stk, context, size, esz) ==
    LET g == push(stk, context)
    IN  UNION { UNION { {[stack |-> q.stack,
                          result |-> IF m.panic THEN MulOverflow
                                     ELSE IF r.err THEN AllocFailed ELSE q.result,
                          bytes |-> r.bytes,
                          trace |-> g.trace
                                    \o <<Native("cuMemAllocHost_v2", m.val, Top(g.stack))>>
                                    \o q.trace]
                         : q \in pop(g.stack, context)}
                      : r \in cuMemAllocHost_v2(m.val) }
              : m \in usize_mul(size, esz) }

\* new that allocates first and takes the guard afterwards
new_late_guard(stk, context, size, esz) ==
    IF ~(size > 0)
    THEN {[stack |-> stk, result |-> ZeroSized, bytes |-> 0, trace |-> <<>>]}
    ELSE
    LET g == push(stk, context)
    IN  UNION { UNION { {[stack |-> q.stack,
                          result |-> IF m.panic THEN MulOverflow
                                     ELSE IF r.err THEN AllocFailed ELSE q.result,
                          bytes |-> r.bytes,
                          trace |-> <<Native("cuMemAllocHost_v2", m.val, Top(stk))>>
                                    \o g.trace \o q.trace]
                         : q \in pop(g.stack, context)}
                      : r \in cuMemAllocHost_v2(m.val) }
              : m \in usize_mul(size, esz) }

\* PageLockedMemory::new: assert, guard, allocate; the guard `_g` is dropped
\* (popped) when the scope is left, by return or by unwinding
new(stk, context, size, esz) ==
    IF ~(size > 0)
    THEN {[stack |-> stk, result |-> ZeroSized, bytes |-> 0, trace |-> <<>>]}
    ELSE
    LET g == push(stk, context)
        body == UNION { IF m.panic
                        THEN {[result |-> MulOverflow, bytes |-> 0, trace |-> <<>>]}
                        ELSE {[result |-> IF r.err THEN AllocFailed ELSE "ok",
                               bytes |-> r.bytes,
                               trace |-> <<Native("cuMemAllocHost_v2", m.val, Top(g.stack))>>]
                              : r \in cuMemAllocHost_v2(m.val)}
                      : m \in usize_mul(size, esz) }
    IN  IF g.result # "ok"
        THEN {[stack |-> g.stack, result |-> g.result, bytes |-> 0, trace |-> g.trace]}
        ELSE UNION { {[stack |-> q.stack,
                       result |-> IF b.result = "ok" THEN q.result
                                  ELSE IF q.result = "ok" THEN b.result
                                  ELSE Abort,
                       bytes |-> b.bytes,
                       trace |-> g.trace \o b.trace \o q.trace]
                      : q \in pop(g.stack, context)}
                   : b \in body }

\* CudaMemory::len
len(m) == m.size

\* ---------------------------------------------------------------- operations on contexts
\* the handles cuCtxCreate may pass back: one the driver never used (the
\* model takes the smallest), or the handle of a destroyed context that is
\* current on no thread, whose memory the driver's allocator may hand out again
Fresh == {p \in Ptrs : \/ ctx[p] = "none" /\ \A q \in Ptrs : ctx[q] = "none" => p <= q
                       \/ ctx[p] = "destroyed"
                          /\ \A t \in Threads : \A i \in 1..Len(stack[t]) : stack[t][i] # p}
Pushed == LET S[i \in 0..2] == IF i = 0 THEN 0 ELSE S[i - 1] + Len(stack[i]) IN S[2]
NGuards == LET S[i \in 0..MaxCtx] == IF i = 0 THEN 0 ELSE S[i - 1] + guards[i] IN S[MaxCtx]

\* Device::create_context: Arc::new(Context::create(self.device))
create_context(t) ==
    /\ \E d \in 0..MaxId : devs[d] > 0
    /\ \E fresh \in Fresh : \E o \in create(stack[t], fresh) :
         /\ IF o.result = "ok"
            THEN /\ stack' = [stack EXCEPT ![t] = o.stack]
                 /\ ctx' = [ctx EXCEPT ![o.ptr] = "live"]
                 /\ arcs' = [arcs EXCEPT ![o.ptr] = 1]
            ELSE IF o.ptr # NULL
            THEN \E x \in drop_Context(o.stack, o.ptr) :
                 /\ stack' = [stack EXCEPT ![t] = x.stack]
                 /\ ctx' = [ctx EXCEPT ![o.ptr] = x.state]
                 /\ arcs' = arcs
            ELSE UNCHANGED <<stack, ctx, arcs>>
         /\ last' = Done(t, "create_context", o.ptr, 0, 0, o.result, 0, stack[t], o.trace)
    /\ UNCHANGED <<guards, mems, refs, devVars, extVars>>

\* a crate-internal call of ContextImpl::push on a Context
ContextImpl_push(t, c) ==
    /\ ctx[c] = "live" /\ strong(c) > 0
    /\ Pushed < MaxDepth
    /\ LET o == push(stack[t], c)
       IN  /\ stack' = [stack EXCEPT ![t] = o.stack]
           /\ last' = Done(t, "push", c, 0, 0, o.result, 0, stack[t], o.trace)
    /\ UNCHANGED <<ctx, arcs, guards, mems, refs, devVars, extVars>>

\* a crate-internal call of ContextImpl::pop on a Context
ContextImpl_pop(t, c) ==
    /\ ctx[c] = "live" /\ strong(c) > 0
    /\ \E o \in pop(stack[t], c) :
         /\ stack' = [stack EXCEPT ![t] = o.stack]
         /\ last' = Paired(Done(t, "pop", c, 0, 0, o.result, 0, stack[t], o.trace),
                           t, c, "push")
    /\ UNCHANGED <<ctx, arcs, guards, mems, refs, devVars, extVars>>

\* Contexted::sync_context on an Arc<Context>: get_context().sync()
sync_context(t, c) ==
    /\ ctx[c] = "live" /\ arcs[c] > 0
    /\ Pushed < MaxDepth
    /\ \E o \in sync(stack[t], c) :
         /\ stack' = [stack EXCEPT ![t] = o.stack]
         /\ last' = Done(t, "sync", c, work[c], 0, o.result, 0, stack[t], o.trace)
    /\ UNCHANGED <<ctx, arcs, guards, mems, refs, devVars, extVars>>

\* Contexted::guard_context on an Arc<Context>:
\* ContextGuard::guard_context(self.clone()) pushes and keeps the Arc
guard_context(t, c) ==
    /\ ctx[c] = "live" /\ arcs[c] > 0
    /\ NGuards < MaxGuards
    /\ Pushed < MaxDepth
    /\ LET o == push(stack[t], c)
       IN  /\ stack' = [stack EXCEPT ![t] = o.stack]
           /\ guards' = IF o.result = "ok" THEN [guards EXCEPT ![c] = @ + 1] ELSE guards
           /\ last' = Done(t, "guard_context", c, 0, 0, o.result, 0, stack[t], o.trace)
    /\ UNCHANGED <<ctx, arcs, mems, refs, devVars, extVars>>

\* a guard that borrows the Context: the user's handles alone keep it alive
Release_unowned(t, c, stk, rec, arcs1, guards1) ==
    /\ arcs' = arcs1
    /\ guards' = guards1
    /\ IF arcs1[c] = 0 /\ ctx[c] = "live"
       THEN \E x \in drop_Context(stk, c) :
            /\ stack' = [stack EXCEPT ![t] = x.stack]
            /\ ctx' = [ctx EXCEPT ![c] = x.state]
            /\ refs' = {[r EXCEPT !.owner = IF r.ptr = c /\ @ = "live" THEN x.state ELSE @]
                        : r \in refs}
            /\ last' = [rec EXCEPT !.out = IF x.logged THEN 1 ELSE 0,
                                   !.trace = @ \o x.trace]
       ELSE /\ stack' = [stack EXCEPT ![t] = stk]
            /\ ctx' = ctx
            /\ refs' = refs
            /\ last' = rec

\* an Arc<Context> is dropped on thread t after the caller's stack became stk;
\* when it was the last one, Drop for Context runs
Release(t, c, stk, rec, arcs1, guards1) ==
    /\ arcs' = arcs1
    /\ guards' = guards1
    /\ IF arcs1[c] + guards1[c] = 0
       THEN \E x \in drop_Context(stk, c) :
            /\ stack' = [stack EXCEPT ![t] = x.stack]
            /\ ctx' = [ctx EXCEPT ![c] = x.state]
            /\ refs' = {[r EXCEPT !.owner = IF r.ptr = c /\ @ = "live" THEN x.state ELSE @]
                        : r \in refs}
            /\ last' = [rec EXCEPT !.out = IF x.logged THEN 1 ELSE 0,
                                   !.trace = @ \o x.trace]
       ELSE /\ stack' = [stack EXCEPT ![t] = stk]
            /\ ctx' = ctx
            /\ refs' = refs
            /\ last' = rec

\* the guards on c that sit in `let _g` bindings
ScopedOn(c) ==
    Cardinality({<<t, i>> \in Threads \X (1..MaxGuards + 1) :
                   i <= Len(scoped[t]) /\ scoped[t][i].ctx = c})

\* Drop for ContextGuard: self.ctx.pop(), then the guard's Arc is dropped.
\* A guard is Send: any thread may drop one that is bound to no scope.
drop_ContextGuard(t, c) ==
    /\ guards[c] > ScopedOn(c)
    /\ \E o \in pop(stack[t], c) :
         Release(t, c, o.stack,
                 Paired(Done(t, "drop_guard", c, 0, 0, o.result, 0, stack[t], o.trace),
                        t, c, "guard_context"),
                 arcs, [guards EXCEPT ![c] = @ - 1])
    /\ UNCHANGED <<mems, devVars, extVars>>

\* handles that each own the native context: every drop destroys it
drop_Arc_each(t, c) ==
    /\ arcs[c] > 0
    /\ arcs[c] = 1 => \A m \in mems : m.context # c
    /\ arcs' = [arcs EXCEPT ![c] = @ - 1]
    /\ \E x \in drop_Context(stack[t], c) :
         /\ stack' = [stack EXCEPT ![t] = x.stack]
         /\ ctx' = [ctx EXCEPT ![c] = x.state]
         /\ last' = Done(t, "drop", c, 0, 0, "ok", IF x.logged THEN 1 ELSE 0, stack[t],
                         x.trace)
    /\ UNCHANGED <<guards, refs, mems, devVars, extVars>>

\* drop of an Arc<Context> held by user code; a PageLockedMemory borrows the
\* Context through one of them, which the borrow checker keeps alive
drop_Arc(t, c) ==
    /\ arcs[c] > 0
    /\ arcs[c] = 1 => \A m \in mems : m.context # c
    /\ Release(t, c, stack[t], Done(t, "drop", c, 0, 0, "ok", 0, stack[t], <<>>),
               [arcs EXCEPT ![c] = @ - 1], guards)
    /\ UNCHANGED <<mems, devVars, extVars>>

\* PageLockedMemory::<T>::new(&ctx, size) with size_of::<T>() = esz
PageLockedMemory_new(t, c, size, esz) ==
    /\ ctx[c] = "live" /\ arcs[c] > 0
    /\ mems = {}
    /\ \E o \in new(stack[t], c, size, esz) :
         /\ stack' = [stack EXCEPT ![t] = o.stack]
         /\ mems' = IF o.result = "ok"
                    THEN mems \cup {[ptr |-> 1, size |-> size, esz |-> esz,
                                     bytes |-> o.bytes, context |-> c]}
                    ELSE mems
         /\ last' = Done(t, "new", c, size, esz, o.result, o.bytes, stack[t], o.trace)
    /\ UNCHANGED <<ctx, arcs, guards, refs, devVars, extVars>>

\* Drop for PageLockedMemory: cuMemFreeHost, a failure is logged and swallowed
drop_PageLockedMemory(t, m) ==
    /\ m \in mems
    /\ \E r \in cuMemFreeHost :
         last' = Done(t, "drop_mem", m.context, m.size, m.esz, "ok",
                      IF r.err THEN 1 ELSE 0, stack[t],
                      <<Native("cuMemFreeHost", m.ptr, Top(stack[t]))>>)
    /\ mems' = mems \ {m}
    /\ UNCHANGED <<stack, ctx, arcs, guards, refs, devVars, extVars>>

\* Contexted::get_context on an Arc<Context>: self.clone(), one more holder
get_context(t, c) ==
    /\ ctx[c] = "live" /\ arcs[c] > 0
    /\ arcs[c] < MaxArcs
    /\ arcs' = [arcs EXCEPT ![c] = @ + 1]
    /\ last' = Done(t, "get_context", c, 0, 0, "ok", 0, stack[t], <<>>)
    /\ UNCHANGED <<stack, ctx, guards, mems, refs, devVars, extVars>>

\* Context::get_ref: a ContextRef with the same handle, no ownership
get_ref(t, c) ==
    /\ ctx[c] = "live" /\ arcs[c] > 0
    /\ refs' = refs \cup {[ptr |-> c, owner |-> "live"]}
    /\ last' = Done(t, "get_ref", c, 0, 0, "ok", 0, stack[t], <<>>)
    /\ UNCHANGED <<stack, ctx, arcs, guards, mems, devVars, extVars>>

\* how `last` records what became of the owner of a ContextRef
OwnerCode(r) == IF r.owner = "live" THEN 0 ELSE IF r.owner = "destroyed" THEN 1 ELSE 2

\* version() on a Context
Context_version(t, c) ==
    /\ ctx[c] = "live" /\ arcs[c] > 0
    /\ \E o \in version(c) :
         last' = Done(t, "version", c, 0, 0, o.result, 0, stack[t], o.trace)
    /\ UNCHANGED <<ctxVars, devVars, extVars>>

\* version() on a ContextRef, whatever became of its owner
ContextRef_version(t, r) ==
    /\ r \in refs
    /\ \E o \in version(r.ptr) :
         last' = Done(t, "ref_version", r.ptr, OwnerCode(r), 0, o.result, 0, stack[t], o.trace)
    /\ UNCHANGED <<ctxVars, devVars, extVars>>

\* `ctx == ctx_ref` and `ctx_ref == ctx` for a Context and a ContextRef:
\* result is the first comparison, out the second
compare(t, c, r) ==
    /\ ctx[c] = "live" /\ arcs[c] > 0
    /\ r \in refs
    /\ last' = Done(t, "eq", c, r.ptr, OwnerCode(r),
                    IF Context_eq(c, r) THEN "true" ELSE "false",
                    IF ContextRef_eq(r, c) THEN 1 ELSE 0, stack[t], <<>>)
    /\ UNCHANGED <<ctxVars, devVars, extVars>>

\* guard creation on a driver that keeps one context stack for the process
scoped_guard_global(t, c) ==
    /\ ctx[c] = "live" /\ arcs[c] > 0
    /\ Len(scoped[t]) < MaxGuards
    /\ Pushed < MaxDepth
    /\ LET o == push(stack[t], c)
       IN  /\ stack' = IF o.result = "ok"
                       THEN [u \in Threads |-> Append(stack[u], c)]
                       ELSE stack
           /\ guards' = IF o.result = "ok" THEN [guards EXCEPT ![c] = @ + 1] ELSE guards
           /\ scoped' = IF o.result = "ok"
                        THEN [scoped EXCEPT ![t] = Append(@, [ctx |-> c, base |-> stack[t]])]
                        ELSE scoped
           /\ last' = Done(t, "scoped_guard", c, 0, 0, o.result, 0, stack[t], o.trace)
    /\ UNCHANGED <<ctx, arcs, mems, refs, devVars, strVars, gpuVars>>

\* `let _g = ctx.guard_context();`: the guard is bound to a scope of thread t
scoped_guard(t, c) ==
    /\ ctx[c] = "live" /\ arcs[c] > 0
    /\ Len(scoped[t]) < MaxGuards
    /\ Pushed < MaxDepth
    /\ LET o == push(stack[t], c)
       IN  /\ stack' = [stack EXCEPT ![t] = o.stack]
           /\ guards' = IF o.result = "ok" THEN [guards EXCEPT ![c] = @ + 1] ELSE guards
           /\ scoped' = IF o.result = "ok"
                        THEN [scoped EXCEPT ![t] = Append(@, [ctx |-> c, base |-> stack[t]])]
                        ELSE scoped
           /\ last' = Done(t, "scoped_guard", c, 0, 0, o.result, 0, stack[t], o.trace)
    /\ UNCHANGED <<ctx, arcs, mems, refs, devVars, strVars, gpuVars>>

\* the innermost scope of thread t ends: Drop for ContextGuard runs on t
scoped_guard_drop(t) ==
    /\ scoped[t] # <<>>
    /\ LET g == Top(scoped[t])
       IN  \E o \in pop(stack[t], g.ctx) :
             Release(t, g.ctx, o.stack,
                     [Done(t, "scoped_drop", g.ctx, 0, 0, o.result, 0, stack[t], o.trace)
                        EXCEPT !.paired = TRUE, !.base = g.base],
                     arcs, [guards EXCEPT ![g.ctx] = @ - 1])
    /\ scoped' = [scoped EXCEPT ![t] = Front(@)]
    /\ UNCHANGED <<mems, devVars, strVars, gpuVars>>

\* ---------------------------------------------------------------- Device
InitFailed == "panic: Initialization of CUDA Driver API failed"
Poisoned == "panic: Once instance has previously been poisoned"
ErrGetCount == "Err: cuDeviceGetCount"
ErrGet == "Err: cuDeviceGet"
NotFound == "Err: DeviceNotFound"

\* native: cuInit may fail; cuDeviceGetCount reports the device count or fails;
\* cuDeviceGet passes back the device of an ordinal or fails
cuInit == {[err |-> FALSE], [err |-> TRUE]}
cuDeviceGetCount == {[err |-> FALSE, count |-> ndev], [err |-> TRUE, count |-> 0]}
cuDeviceGet(ordinal) == {[err |-> FALSE, device |-> ordinal], [err |-> TRUE, device |-> 0]}

\* call_once that does not wait for a running initialisation
call_once_nowait(state) ==
    CASE state = "COMPLETE" -> "return"
      [] state = "INCOMPLETE" -> "run"
      [] state = "RUNNING" -> "return"
      [] state = "POISONED" -> "panic"

\* DRIVER_API_INIT.call_once: what the caller does in each state of the Once
call_once(state) ==
    CASE state = "COMPLETE" -> "return"
      [] state = "INCOMPLETE" -> "run"
      [] state = "RUNNING" -> "wait"
      [] state = "POISONED" -> "panic"

\* Device::get_count after Self::init() has returned
get_count ==
    { [result |-> IF r.err THEN ErrGetCount ELSE "ok", count |-> r.count,
       trace |-> <<Native("cuDeviceGetCount", 0, NULL)>>]
      : r \in cuDeviceGetCount }

\* nth with the range check off by one
nth_offbyone(id) ==
    UNION { IF g.result # "ok"
            THEN {[result |-> ErrGetCount, count |-> 0, trace |-> g.trace]}
            ELSE IF id > g.count
            THEN {[result |-> NotFound, count |-> g.count, trace |-> g.trace]}
            ELSE {[result |-> IF r.err THEN ErrGet ELSE "ok", count |-> g.count,
                   trace |-> g.trace \o <<Native("cuDeviceGet", id, NULL)>>]
                  : r \in cuDeviceGet(id)}
          : g \in get_count }

\* Device::nth after Self::init() has returned
nth(id) ==
    UNION { IF g.result # "ok"
            THEN {[result |-> ErrGetCount, count |-> 0, trace |-> g.trace]}
            ELSE IF id >= g.count
            THEN {[result |-> NotFound, count |-> g.count, trace |-> g.trace]}
            ELSE {[result |-> IF r.err THEN ErrGet ELSE "ok", count |-> g.count,
                   trace |-> g.trace \o <<Native("cuDeviceGet", id, NULL)>>]
                  : r \in cuDeviceGet(id)}
          : g \in get_count }

\* a thread enters Device::get_count()
get_count_call(t) ==
    /\ pc[t] = "idle"
    /\ pc' = [pc EXCEPT ![t] = "init"]
    /\ call' = [call EXCEPT ![t] = [op |-> "get_count", id |-> 0]]
    /\ UNCHANGED <<ctxVars, extVars, last, once, ninit, ndev, devs>>

\* a thread enters Device::nth(id)
nth_call(t, id) ==
    /\ pc[t] = "idle"
    /\ devs[id] < MaxDevObj
    /\ pc' = [pc EXCEPT ![t] = "init"]
    /\ call' = [call EXCEPT ![t] = [op |-> "nth", id |-> id]]
    /\ UNCHANGED <<ctxVars, extVars, last, once, ninit, ndev, devs>>

\* Device::init: DRIVER_API_INIT.call_once(..) decides; a caller that finds the
\* initialisation running blocks until it is over
init(t) ==
    /\ pc[t] = "init"
    /\ LET todo == call_once(once)
       IN  /\ todo # "wait"
           /\ once' = IF todo = "run" THEN "RUNNING" ELSE once
           /\ pc' = [pc EXCEPT ![t] = CASE todo = "return" -> "query"
                                        [] todo = "run" -> "cuInit"
                                        [] todo = "panic" -> "idle"]
           /\ call' = IF todo = "panic" THEN [call EXCEPT ![t] = NoCall] ELSE call
           /\ last' = IF todo = "panic"
                      THEN Done(t, call[t].op, NULL, call[t].id, 0, Poisoned, 0, <<>>, <<>>)
                      ELSE last
    /\ UNCHANGED <<ctxVars, extVars, ninit, ndev, devs>>

\* the closure of call_once: cuInit(0).expect(..); a panic poisons the Once
init_closure(t) ==
    /\ pc[t] = "cuInit"
    /\ ninit < MaxInit
    /\ ninit' = ninit + 1
    /\ \E r \in cuInit :
         IF r.err
         THEN /\ once' = "POISONED"
              /\ pc' = [pc EXCEPT ![t] = "idle"]
              /\ call' = [call EXCEPT ![t] = NoCall]
              /\ last' = Done(t, call[t].op, NULL, call[t].id, 0, InitFailed, 0, <<>>,
                              <<Native("cuInit", 0, NULL)>>)
         ELSE /\ once' = "COMPLETE"
              /\ pc' = [pc EXCEPT ![t] = "query"]
              /\ UNCHANGED <<call, last>>
    /\ UNCHANGED <<ctxVars, extVars, ndev, devs>>

\* the rest of Device::get_count
get_count_return(t) ==
    /\ pc[t] = "query" /\ call[t].op = "get_count"
    /\ \E o \in get_count :
         last' = Done(t, "get_count", NULL, 0, 0, o.result, o.count, <<>>, o.trace)
    /\ pc' = [pc EXCEPT ![t] = "idle"]
    /\ call' = [call EXCEPT ![t] = NoCall]
    /\ UNCHANGED <<ctxVars, extVars, once, ninit, ndev, devs>>

\* the rest of Device::nth
nth_return(t) ==
    /\ pc[t] = "query" /\ call[t].op = "nth"
    /\ \E o \in nth(call[t].id) :
         /\ last' = Done(t, "nth", NULL, call[t].id, 0, o.result, o.count, <<>>, o.trace)
         /\ devs' = IF o.result = "ok" THEN [devs EXCEPT ![call[t].id] = @ + 1] ELSE devs
    /\ pc' = [pc EXCEPT ![t] = "idle"]
    /\ call' = [call EXCEPT ![t] = NoCall]
    /\ UNCHANGED <<ctxVars, extVars, once, ninit, ndev>>

\* ---------------------------------------------------------------- modules and kernels
LoadFailed == "Err: cuModuleLoad"
LaunchFailed == "Err: cuLaunchKernel"
UnloadFailed == "panic: Failed to unload module"

\* native: cuModuleLoad loads into the current context and fails without one;
\* cuLaunchKernel enqueues the kernel in the function's context, which has to
\* be current; cuModuleUnload may fail
cuModuleLoad(cur) ==
    IF cur # NULL /\ ctx[cur] \in {"live", "leaked"}
    THEN {[err |-> FALSE], [err |-> TRUE]}
    ELSE {[err |-> TRUE]}
cuLaunchKernel(cur, func) ==
    IF cur = func.ctx THEN {[err |-> FALSE], [err |-> TRUE]} ELSE {[err |-> TRUE]}
cuModuleUnload == {[err |-> FALSE], [err |-> TRUE]}

\* Module::load(filename)
Module_load(t) ==
    /\ \E r \in cuModuleLoad(Top(stack[t])) :
         /\ modules' = IF r.err THEN modules ELSE modules \cup {[ctx |-> Top(stack[t])]}
         /\ last' = Done(t, "load", Top(stack[t]), 0, 0, IF r.err THEN LoadFailed ELSE "ok",
                         0, stack[t], <<Native("cuModuleLoad", 0, Top(stack[t]))>>)
    /\ UNCHANGED <<ctxVars, devVars, scoped, strVars, work>>

\* Function::launch on a Function of Module m: the default stream of the
\* current context
launch(t, m) ==
    /\ m \in modules
    /\ work[m.ctx] < MaxKernels
    /\ \E r \in cuLaunchKernel(Top(stack[t]), m) :
         /\ work' = IF r.err THEN work ELSE [work EXCEPT ![m.ctx] = @ + 1]
         /\ last' = Done(t, "launch", m.ctx, 0, 0, IF r.err THEN LaunchFailed ELSE "ok",
                         0, stack[t], <<Native("cuLaunchKernel", m.ctx, Top(stack[t]))>>)
    /\ UNCHANGED <<ctxVars, devVars, scoped, strVars, modules>>

\* the device completes a kernel of context c
kernel_done(c) ==
    /\ work[c] > 0
    /\ work' = [work EXCEPT ![c] = @ - 1]
    /\ UNCHANGED <<ctxVars, devVars, last, scoped, strVars, modules>>

\* a drop of Module that logs a failed unload and goes on
drop_Module_logged(t, m) ==
    /\ m \in modules
    /\ modules' = modules \ {m}
    /\ \E r \in cuModuleUnload :
         last' = Done(t, "drop_module", m.ctx, 0, 0, "ok",
                      IF r.err THEN 1 ELSE 0, stack[t],
                      <<Native("cuModuleUnload", m.ctx, Top(stack[t]))>>)
    /\ UNCHANGED <<ctxVars, devVars, scoped, strVars, work>>

\* Drop for Module: cuModuleUnload(..).check().expect("Failed to unload module")
drop_Module(t, m) ==
    /\ m \in modules
    /\ modules' = modules \ {m}
    /\ \E r \in cuModuleUnload :
         last' = Done(t, "drop_module", m.ctx, 0, 0, IF r.err THEN UnloadFailed ELSE "ok",
                      IF r.err THEN 1 ELSE 0, stack[t],
                      <<Native("cuModuleUnload", m.ctx, Top(stack[t]))>>)
    /\ UNCHANGED <<ctxVars, devVars, scoped, strVars, work>>

\* ---------------------------------------------------------------- streams and events
\* Stream::wait: cudaStreamWaitEvent(self.0, event.0, 0)
wait(self, event) == [stream |-> self, event |-> event]

\* record that passes the handles of another stream
record_other(self, stream) == [event |-> self, stream |-> CHOOSE s \in Streams : s # stream]

\* Event::record: cudaEventRecord(self.0, stream.0)
record(self, stream) == [event |-> self, stream |-> stream]

\* native: cudaEventRecord puts a record of the event at the tail of the
\* stream; the event now stands for this record
cudaEventRecord(event, stream) ==
    /\ queue' = [queue EXCEPT ![stream] = Append(@, [kind |-> "record", id |-> nrec + 1])]
    /\ evrec' = [evrec EXCEPT ![event] = nrec + 1]
    /\ nrec' = nrec + 1

\* native: cudaStreamWaitEvent makes what is enqueued on the stream from now
\* on wait for the latest record of the event; nothing to wait for when the
\* event was never recorded
cudaStreamWaitEvent(stream, event) ==
    queue' = IF evrec[event] = 0 THEN queue
             ELSE [queue EXCEPT ![stream] = Append(@, [kind |-> "wait", id |-> evrec[event]])]

\* the host enqueues a work item on a stream
enqueue(s) ==
    /\ nwork < MaxWork
    /\ nwork' = nwork + 1
    /\ queue' = [queue EXCEPT ![s] = Append(@, [kind |-> "work", id |-> nwork + 1])]
    /\ issued' = [issued EXCEPT
                    !.on[s] = @ \cup {nwork + 1},
                    !.deps[nwork + 1] = UNION {issued.before[r] : r \in issued.waited[s]}]
    /\ UNCHANGED <<ctxVars, devVars, last, scoped, gpuVars, running, completed, evrec, reached, nrec>>

\* event.record(&stream)
Event_record(e, s) ==
    /\ nrec < MaxRec
    /\ LET a == record(e, s) IN cudaEventRecord(a.event, a.stream)
    /\ issued' = [issued EXCEPT !.before[nrec + 1] = issued.on[s]]
    /\ UNCHANGED <<ctxVars, devVars, last, scoped, gpuVars, running, completed, reached, nwork>>

\* stream.wait(&event)
Stream_wait(s, e) ==
    /\ evrec[e] \notin issued.waited[s]
    /\ LET a == wait(s, e) IN cudaStreamWaitEvent(a.stream, a.event)
    /\ issued' = IF evrec[e] = 0 THEN issued
                 ELSE [issued EXCEPT !.waited[s] = @ \cup {evrec[e]}]
    /\ UNCHANGED <<ctxVars, devVars, last, scoped, gpuVars, running, completed, evrec, reached,
                   nwork, nrec>>

\* the device takes up the oldest item of a stream: it begins a work item,
\* reaches a record, or passes a wait whose record has been reached
device_begin(s) ==
    /\ queue[s] # <<>>
    /\ LET h == Head(queue[s])
       IN  CASE h.kind = "work" ->
                  /\ h.id \notin running
                  /\ running' = running \cup {h.id}
                  /\ UNCHANGED <<queue, reached>>
             [] h.kind = "record" ->
                  /\ reached' = reached \cup {h.id}
                  /\ queue' = [queue EXCEPT ![s] = Tail(@)]
                  /\ UNCHANGED running
             [] h.kind = "wait" ->
                  /\ h.id \in reached
                  /\ queue' = [queue EXCEPT ![s] = Tail(@)]
                  /\ UNCHANGED <<running, reached>>
    /\ UNCHANGED <<ctxVars, devVars, last, scoped, gpuVars, completed, evrec, issued, nwork, nrec>>

\* the device completes the work item it has begun on a stream
device_complete(s) ==
    /\ queue[s] # <<>>
    /\ Head(queue[s]).kind = "work" /\ Head(queue[s]).id \in running
    /\ running' = running \ {Head(queue[s]).id}
    /\ completed' = completed \cup {Head(queue[s]).id}
    /\ queue' = [queue EXCEPT ![s] = Tail(@)]
    /\ UNCHANGED <<ctxVars, devVars, last, scoped, gpuVars, evrec, reached, issued, nwork, nrec>>

\* two streams and an event exist, nothing has been enqueued
InitStreams ==
    /\ queue = [s \in Streams |-> <<>>]
    /\ running = {}
    /\ completed = {}
    /\ evrec = [e \in Events |-> 0]
    /\ reached = {}
    /\ issued = [on |-> [s \in Streams |-> {}],
                 before |-> [r \in 1..MaxRec |-> {}],
                 waited |-> [s \in Streams |-> {}],
                 deps |-> [w \in 1..MaxWork |-> {}]]
    /\ nwork = 0
    /\ nrec = 0

\* ---------------------------------------------------------------- specification
\* The process after Device::nth(0) has returned a Device on a machine with
\* one device: the driver is initialised, no context exists yet.
Init ==
    /\ stack = [t \in Threads |-> <<>>]
    /\ ctx = [p \in Ptrs |-> "none"]
    /\ arcs = [p \in Ptrs |-> 0]
    /\ guards = [p \in Ptrs |-> 0]
    /\ mems = {}
    /\ last = NoOp
    /\ once = "COMPLETE"
    /\ pc = [t \in Threads |-> "idle"]
    /\ call = [t \in Threads |-> NoCall]
    /\ ninit = 1
    /\ ndev = 1
    /\ devs = [i \in 0..MaxId |-> IF i = 0 THEN 1 ELSE 0]
    /\ refs = {}
    /\ scoped = [t \in Threads |-> <<>>]
    /\ InitStreams
    /\ work = [p \in Ptrs |-> 0]
    /\ modules = {}

\* the context protocol
Next ==
    \E t \in Threads :
       \/ create_context(t)
       \/ \E c \in Ptrs : ContextImpl_push(t, c)
       \/ \E c \in Ptrs : ContextImpl_pop(t, c)
       \/ \E c \in Ptrs : sync_context(t, c)
       \/ \E c \in Ptrs : guard_context(t, c)
       \/ \E c \in Ptrs : drop_ContextGuard(t, c)
       \/ \E c \in Ptrs : drop_Arc(t, c)

Spec == Init /\ [][Next]_vars

\* page-locked memory on top of the context protocol
NextMem ==
    \E t \in Threads :
       \/ create_context(t)
       \/ \E c \in Ptrs : ContextImpl_push(t, c)
       \/ \E c \in Ptrs : sync_context(t, c)
       \/ \E c \in Ptrs, size \in 0..MaxLen, esz \in ElemSizes :
             PageLockedMemory_new(t, c, size, esz)
       \/ \E m \in mems : drop_PageLockedMemory(t, m)

SpecMem == Init /\ [][NextMem]_vars

\* a context shared by two threads: each thread takes scoped guards and drops
\* them with no call of its own in between, while the other thread does
\* whatever it likes, dropping holders included
NextShared ==
    \E t \in Threads :
       \/ scoped[t] = <<>> /\ create_context(t)
       \/ \E c \in Ptrs : scoped[t] = <<>> /\ get_context(t, c)
       \/ \E c \in Ptrs : scoped[t] = <<>> /\ sync_context(t, c)
       \/ \E c \in Ptrs : scoped[t] = <<>> /\ drop_Arc(t, c)
       \/ \E c \in Ptrs : scoped_guard(t, c)
       \/ scoped_guard_drop(t)

SpecShared == Init /\ [][NextShared]_vars

\* shared ownership of the context that create_context() has returned to
\* thread 1 (the state of Init after create_context(1)): handles cloned,
\* guards created and moved, ContextRefs taken, all dropped by either thread
\* in any order
InitOwner ==
    /\ stack = [t \in Threads |-> <<>>]
    /\ ctx = [p \in Ptrs |-> IF p = 1 THEN "live" ELSE "none"]
    /\ arcs = [p \in Ptrs |-> IF p = 1 THEN 1 ELSE 0]
    /\ guards = [p \in Ptrs |-> 0]
    /\ mems = {}
    /\ last = Done(1, "create_context", 1, 0, 0, "ok", 0, <<>>,
                   <<Native("cuCtxCreate_v2", 1, NULL), Native("cuCtxPopCurrent_v2", 1, 1)>>)
    /\ once = "COMPLETE"
    /\ pc = [t \in Threads |-> "idle"]
    /\ call = [t \in Threads |-> NoCall]
    /\ ninit = 1
    /\ ndev = 1
    /\ devs = [i \in 0..MaxId |-> IF i = 0 THEN 1 ELSE 0]
    /\ refs = {}
    /\ scoped = [t \in Threads |-> <<>>]
    /\ InitStreams
    /\ work = [p \in Ptrs |-> 0]
    /\ modules = {}

NextOwner ==
    \E t \in Threads :
       \/ \E c \in Ptrs : get_context(t, c)
       \/ \E c \in Ptrs : get_ref(t, c)
       \/ \E c \in Ptrs : guard_context(t, c)
       \/ \E c \in Ptrs : drop_ContextGuard(t, c)
       \/ \E c \in Ptrs : drop_Arc(t, c)

SpecOwner == InitOwner /\ [][NextOwner]_vars

\* ContextRefs: taken from a context, compared, and used before and after the
\* context is dropped
NextRef ==
    \E t \in Threads :
       \/ create_context(t)
       \/ \E c \in Ptrs : get_ref(t, c)
       \/ \E c \in Ptrs : drop_Arc(t, c)
       \/ \E c \in Ptrs : Context_version(t, c)
       \/ \E r \in refs : ContextRef_version(t, r)
       \/ \E c \in Ptrs, r \in refs : compare(t, c, r)

SpecRef == Init /\ [][NextRef]_vars

\* kernels launched in contexts and synchronized
NextWork ==
    \/ \E t \in Threads :
          \/ create_context(t)
          \/ \E c \in Ptrs : ContextImpl_push(t, c)
          \/ Module_load(t)
          \/ \E m \in modules : launch(t, m)
          \/ \E c \in Ptrs : sync_context(t, c)
    \/ \E c \in Ptrs : kernel_done(c)

SpecWork == Init /\ [][NextWork]_vars

\* teardown of contexts, buffers and modules.  The process has created a
\* context and thread 1 has made it current: the state of Init after
\* create_context(1) and ContextImpl_push(1, 1).
InitDrop ==
    /\ stack = [t \in Threads |-> IF t = 1 THEN <<1>> ELSE <<>>]
    /\ ctx = [p \in Ptrs |-> IF p = 1 THEN "live" ELSE "none"]
    /\ arcs = [p \in Ptrs |-> IF p = 1 THEN 1 ELSE 0]
    /\ guards = [p \in Ptrs |-> 0]
    /\ mems = {}
    /\ last = Done(1, "push", 1, 0, 0, "ok", 0, <<>>,
                   <<Native("cuCtxPushCurrent_v2", 1, NULL)>>)
    /\ once = "COMPLETE"
    /\ pc = [t \in Threads |-> "idle"]
    /\ call = [t \in Threads |-> NoCall]
    /\ ninit = 1
    /\ ndev = 1
    /\ devs = [i \in 0..MaxId |-> IF i = 0 THEN 1 ELSE 0]
    /\ refs = {}
    /\ scoped = [t \in Threads |-> <<>>]
    /\ InitStreams
    /\ work = [p \in Ptrs |-> 0]
    /\ modules = {}

NextDrop ==
    \E t \in Threads :
       \/ \E c \in Ptrs, size \in 0..MaxLen, esz \in ElemSizes :
             PageLockedMemory_new(t, c, size, esz)
       \/ Module_load(t)
       \/ \E m \in mems : drop_PageLockedMemory(t, m)
       \/ \E m \in modules : drop_Module(t, m)
       \/ \E c \in Ptrs : drop_Arc(t, c)

SpecDrop == InitDrop /\ [][NextDrop]_vars

\* work on two streams ordered by an event
NextStream ==
    \/ \E s \in Streams : enqueue(s)
    \/ \E e \in Events, s \in Streams : Event_record(e, s)
    \/ \E s \in Streams, e \in Events : Stream_wait(s, e)
    \/ \E s \in Streams : device_begin(s)
    \/ \E s \in Streams : device_complete(s)

SpecStream == Init /\ [][NextStream]_vars


\* driver initialisation and device enumeration, from process start
InitDevice ==
    /\ stack = [t \in Threads |-> <<>>]
    /\ ctx = [p \in Ptrs |-> "none"]
    /\ arcs = [p \in Ptrs |-> 0]
    /\ guards = [p \in Ptrs |-> 0]
    /\ mems = {}
    /\ last = NoOp
    /\ once = "INCOMPLETE"
    /\ pc = [t \in Threads |-> "idle"]
    /\ call = [t \in Threads |-> NoCall]
    /\ ninit = 0
    /\ ndev \in 0..MaxDev
    /\ devs = [i \in 0..MaxId |-> 0]
    /\ refs = {}
    /\ scoped = [t \in Threads |-> <<>>]
    /\ InitStreams
    /\ work = [p \in Ptrs |-> 0]
    /\ modules = {}

NextDevice ==
    \E t \in Threads :
       \/ get_count_call(t)
       \/ \E id \in 0..MaxId : nth_call(t, id)
       \/ init(t)
       \/ init_closure(t)
       \/ get_count_return(t)
       \/ nth_return(t)

SpecDevice == InitDevice /\ [][NextDevice]_vars


\* ---------------------------------------------------------------- properties
OnStack(c) == \E t \in Threads : \E i \in 1..Len(stack[t]) : stack[t][i] = c
Other(t) == CHOOSE u \in Threads : u # t

\* C1: when Device::create_context() returns, the new context is on no
\* thread's stack and the caller's stack is what it was before the call:
\* cuCtxCreate made the new context current and Context::create popped it.
C1_CreateNetsToInactive ==
    (last.op = "create_context" /\ last.result = "ok") =>
        /\ stack[last.thread] = last.pre
        /\ ~OnStack(last.ctx)
        /\ ctx[last.ctx] = "live"
        /\ last.trace = <<Native("cuCtxCreate_v2", last.ctx, Top(last.pre)),
                          Native("cuCtxPopCurrent_v2", last.ctx, last.ctx)>>

\* a context was created by a thread with a context current, while the other
\* thread had one current too
C1_Witness ==
    /\ last.op = "create_context" /\ last.result = "ok"
    /\ last.pre # <<>>
    /\ stack[Other(last.thread)] # <<>>

\* C2: push(c) directly followed by pop() on c on the same thread succeeds and
\* leaves the thread's stack as the push found it; so does creating a
\* ContextGuard on c and dropping it.
C2_PushThenPopRestores ==
    (last.op \in {"pop", "drop_guard"} /\ last.paired) =>
        /\ last.result = "ok"
        /\ stack[last.thread] = last.base

\* a push on a non-empty stack was undone by its pop
C2_Witness ==
    /\ last.op = "pop" /\ last.paired
    /\ last.base # <<>>

\* C3 (as stated): pop() on c completes normally iff the top of the caller's
\* stack is c's handle; with an empty stack it panics "No current context";
\* with another handle on top it panics "Pop must return same pointer".
C3_PopEmptyIsNoCurrent ==
    last.op \in {"pop", "drop_guard"} =>
        /\ (last.result = "ok") <=> (Top(last.pre) = last.ctx)
        /\ (last.pre = <<>>) => (last.result = NoCurrent)
        /\ (last.pre # <<>> /\ Top(last.pre) # last.ctx) => (last.result = PopMismatch)

\* C3 (amended): as above, but with an empty stack the panic is "No current
\* context" when the driver passes back a null handle and "Failed to pop
\* current context" when the driver reports an error.
C3_PopOutcome ==
    last.op \in {"pop", "drop_guard"} =>
        /\ (last.result = "ok") <=> (Top(last.pre) = last.ctx)
        /\ (last.pre = <<>>) => (last.result \in {NoCurrent, PopFailed})
        /\ (last.pre # <<>> /\ Top(last.pre) # last.ctx) => (last.result = PopMismatch)

\* a pop with nothing current ended in the panic of the failed native call
C3_Witness ==
    /\ last.op = "pop" /\ last.pre = <<>>
    /\ last.result = PopFailed

\* C4: whenever sync() returns, with Ok or with the error of the synchronize
\* step, the caller's stack is what it was before the call.
C4_SyncRestoresStack ==
    (last.op = "sync" /\ last.result \in {"ok", "Err"}) =>
        stack[last.thread] = last.pre

\* C5: the guard taken by PageLockedMemory::new is released on every exit
\* path: when the allocation fails and new panics, the unwinding pops the
\* context and the caller's stack is what it was before new was called.
C5_GuardReleasedOnUnwind ==
    (last.op = "new" /\ last.arg > 0) =>
        /\ stack[last.thread] = last.pre
        /\ last.result # Abort
        /\ last.trace[1] = Native("cuCtxPushCurrent_v2", last.ctx, Top(last.pre))
        /\ last.trace[Len(last.trace)] = Native("cuCtxPopCurrent_v2", last.ctx, last.ctx)
        /\ (last.result = AllocFailed) =>
               /\ Len(last.trace) = 3
               /\ last.trace[2].call = "cuMemAllocHost_v2"

\* an allocation failed in new, called with a context already current
C5_Witness ==
    /\ last.op = "new" /\ last.result = AllocFailed
    /\ last.pre # <<>>

\* C7: PageLockedMemory::new(ctx, 0) panics "Zero-sized malloc is forbidden"
\* before the context is pushed or the allocator is called: no native call is
\* issued, the caller's stack is unchanged and no buffer exists.
C7_ZeroSizeIsFatal ==
    (last.op = "new" /\ last.arg = 0) =>
        /\ last.result = ZeroSized
        /\ last.trace = <<>>
        /\ stack[last.thread] = last.pre
        /\ mems = {}

\* new was called with size 0 by a thread with a context current
C7_Witness ==
    /\ last.op = "new" /\ last.arg = 0
    /\ last.pre # <<>>

\* C8: for n > 0, a successful new(ctx, n) has requested exactly
\* n * size_of::<T>() bytes and returns a buffer of len() n backed by
\* n * size_of::<T>() bytes.
C8_ExactBytes ==
    (last.op = "new" /\ last.result = "ok") =>
        /\ last.trace[2] = Native("cuMemAllocHost_v2", last.arg * last.esz, last.ctx)
        /\ \E m \in mems : len(m) = last.arg /\ m.bytes = last.arg * last.esz

\* C9: new(ctx, n) with n > 0 holds the guard for the allocation only: ctx is
\* current on the caller when the allocation is issued, and when new returns
\* the guard has been dropped and the caller's stack is what it was.
C9_GuardOnlyAroundAllocation ==
    (last.op = "new" /\ last.result = "ok") =>
        /\ Len(last.trace) = 3
        /\ last.trace[1] = Native("cuCtxPushCurrent_v2", last.ctx, Top(last.pre))
        /\ last.trace[2].call = "cuMemAllocHost_v2"
        /\ last.trace[2].cur = last.ctx
        /\ last.trace[3] = Native("cuCtxPopCurrent_v2", last.ctx, last.ctx)
        /\ stack[last.thread] = last.pre
        /\ guards[last.ctx] = 0

\* new returned a buffer to a thread on which another context is current
C9_Witness ==
    /\ last.op = "new" /\ last.result = "ok"
    /\ last.pre # <<>> /\ Top(last.pre) # last.ctx
    /\ mems # {}

\* C6: with n the count get_count() reports, nth(id) returns
\* DeviceNotFound{id, count: n} when id >= n and a Device when id < n and the
\* device lookup succeeds, however many Devices of that id exist already.
C6_NthRange ==
    (last.op = "nth" /\ last.result \in {"ok", NotFound, ErrGet}) =>
        /\ last.out = ndev
        /\ (last.arg >= ndev) => (last.result = NotFound)
        /\ (last.arg < ndev /\ last.result # ErrGet) => (last.result = "ok")
        /\ (last.result = "ok") => (devs[last.arg] >= 1)

\* nth(0) has returned a Device for the second time
C6_Witness ==
    /\ last.op = "nth" /\ last.result = "ok" /\ last.arg = 0
    /\ devs[0] = 2

\* C10: cuInit is issued once per process, and a thread issues a device query
\* only after that initialisation has completed.
C10_InitOnce ==
    /\ ninit <= 1
    /\ \A t \in Threads : pc[t] = "query" => (once = "COMPLETE" /\ ninit = 1)
    /\ (once \in {"COMPLETE", "POISONED"}) <=> (ninit = 1 /\ \A t \in Threads : pc[t] # "cuInit")
    /\ last.op \in {"get_count", "nth"} => ninit = 1

\* both threads made their first call concurrently and both are past init
C10_Witness ==
    /\ pc[1] = "query" /\ pc[2] = "query"
    /\ last.op = "none"
    /\ ninit = 1

\* C11: the context stack is per thread: push, pop, guard creation, guard
\* drop and sync on one thread leave the stack of every other thread as it
\* was, so a guard a thread takes on a shared context and drops again finds
\* that context on top, whatever the other thread did in between: its pop
\* succeeds and restores the stack its push found.
C11_PerThreadStacks ==
    /\ [][\A u \in Threads : u # last'.thread => stack'[u] = stack[u]]_vars
    /\ [](last.op = "scoped_drop" =>
             /\ last.result = "ok"
             /\ last.trace[1] = Native("cuCtxPopCurrent_v2", last.ctx, last.ctx)
             /\ Len(last.trace) = 1 => stack[last.thread] = last.base)

\* a thread dropped its guard on a context while the other thread holds a
\* guard on the same context
C11_Witness ==
    /\ last.op = "scoped_drop" /\ last.result = "ok"
    /\ scoped[Other(last.thread)] # <<>>
    /\ Top(scoped[Other(last.thread)]).ctx = last.ctx
    /\ Top(stack[Other(last.thread)]) = last.ctx
    /\ guards[last.ctx] = 1

\* C12 (as stated): pushing a context that is on the caller's stack already,
\* by push or by creating a second guard, is fatal.
C12_PushTwiceIsFatal ==
    (/\ last.op \in {"push", "guard_context"}
     /\ \E i \in 1..Len(last.pre) : last.pre[i] = last.ctx) =>
        last.result \notin {"ok", "Err"}

\* C12 (amended): pushing a context that is on the caller's stack already, by
\* push or by creating a guard, succeeds and puts it on the stack once more;
\* the pop (or guard drop) that follows directly succeeds and leaves the
\* earlier entry in place.  Only a pop that finds another handle on top is
\* fatal.
C12_PushTwiceSucceeds ==
    /\ (/\ last.op \in {"push", "guard_context"}
        /\ \E i \in 1..Len(last.pre) : last.pre[i] = last.ctx) =>
           /\ last.result = "ok"
           /\ stack[last.thread] = Append(last.pre, last.ctx)
    /\ (/\ last.op \in {"pop", "drop_guard"} /\ last.paired
        /\ Top(last.base) = last.ctx) =>
           /\ last.result = "ok"
           /\ stack[last.thread] = last.base
    /\ (last.op \in {"pop", "drop_guard"} /\ last.result = PopMismatch) =>
           (last.pre # <<>> /\ Top(last.pre) # last.ctx)

\* a guard taken on a context that was current already has been dropped again
C12_Witness ==
    /\ last.op = "drop_guard" /\ last.paired
    /\ Top(last.base) = last.ctx
    /\ last.result = "ok"

\* C13: version() on a ContextRef whose Context has been dropped, the native
\* context destroyed, ends in a panic and returns no version.
C13_ExpiredVersionPanics ==
    (last.op = "ref_version" /\ last.arg = 1) => last.result = VersionFailed

\* C14: `c == r` and `r == c` hold exactly when the Context c and the
\* ContextRef r carry the same handle, so a ContextRef equals the live Context
\* it was taken from, and a ContextRef that equals a live Context was taken
\* from that Context and from no other.
C14_RefEquality ==
    last.op = "eq" =>
        /\ (last.result = "true") <=> (last.arg = last.ctx)
        /\ (last.out = 1) <=> (last.arg = last.ctx)
        /\ (last.result = "true" \/ last.out = 1) => last.esz = 0

C17_TeardownPolicy ==
    /\ (last.op = "drop" /\ last.trace # <<>>) =>
          /\ last.result = "ok"
          /\ last.trace = <<Native("cuCtxDestroy_v2", last.ctx, Top(last.pre))>>
          /\ (last.out = 1) <=> (ctx[last.ctx] = "leaked")
          /\ (last.out = 0) <=> (ctx[last.ctx] = "destroyed")
          /\ arcs[last.ctx] = 0
    /\ last.op = "drop_mem" =>
          /\ last.result = "ok"
          /\ last.out \in {0, 1}
          /\ mems = {}
    /\ last.op = "drop_module" =>
          /\ (last.out = 1) <=> (last.result = UnloadFailed)
          /\ (last.out = 0) <=> (last.result = "ok")

\* the drop of a Module panicked on a failed unload, after the drop of a
\* Context had logged a failed destroy and gone on
C17_Witness ==
    /\ last.op = "drop_module" /\ last.result = UnloadFailed
    /\ \E c \in Ptrs : ctx[c] = "leaked"

\* the call recorded in rec destroyed the native context c
Destroys(rec, c) ==
    \E i \in 1..Len(rec.trace) :
        rec.trace[i].call = "cuCtxDestroy_v2" /\ rec.trace[i].arg = c

\* C18: while a ContextGuard on a context exists the native context is not
\* destroyed, whichever thread drops the other holders; the destroy is issued
\* only by the drop that leaves no guard and no other holder, and when that
\* is the drop of a guard, after the guard's pop.
C18_GuardKeepsContextAlive ==
    /\ \A c \in Ptrs : guards[c] > 0 => ctx[c] = "live"
    /\ \A c \in Ptrs : Destroys(last, c) =>
          /\ last.op \in {"drop", "drop_guard"} /\ last.ctx = c
          /\ guards[c] = 0 /\ arcs[c] = 0
          /\ last.op = "drop_guard" =>
                /\ Len(last.trace) = 2
                /\ last.trace[1].call = "cuCtxPopCurrent_v2"
                /\ last.trace[2].call = "cuCtxDestroy_v2"

\* the last handle user code held was dropped, by the thread that does not
\* have the context current, and the context lives on through a guard
C18_Witness ==
    /\ last.op = "drop" /\ last.trace = <<>>
    /\ arcs[last.ctx] = 0 /\ guards[last.ctx] = 1
    /\ ctx[last.ctx] = "live"
    /\ Top(stack[Other(last.thread)]) = last.ctx

\* C20: the native destroy call for a context is issued by the step that
\* drops its last holder (a handle of user code or the handle inside a guard)
\* and by no other step: not while a holder remains, not a second time, and
\* whatever ContextRefs exist and whichever thread drops last.
C20_DestroyedExactlyOnce ==
    [][\A c \in Ptrs :
         /\ Destroys(last', c) <=> (strong(c) > 0 /\ strong(c)' = 0)
         /\ Destroys(last', c) =>
               /\ ctx[c] = "live" /\ ctx'[c] \in {"destroyed", "leaked"}
               /\ \A i, j \in 1..Len(last'.trace) :
                     (last'.trace[i].call = "cuCtxDestroy_v2"
                        /\ last'.trace[j].call = "cuCtxDestroy_v2") => i = j
         /\ (ctx[c] \in {"destroyed", "leaked"}) => ctx'[c] = ctx[c]]_vars

\* the last holder was a guard, dropped by the thread that did not create the
\* context, while a ContextRef to the context exists: the context is destroyed
C20_Witness ==
    /\ last.op = "drop_guard" /\ Destroys(last, last.ctx)
    /\ last.thread = 2
    /\ ctx[last.ctx] = "destroyed"
    /\ \E r \in refs : r.ptr = last.ctx

\* C19: when a PageLockedMemory is dropped, the native free is issued with
\* the buffer's context current on the dropping thread, and the thread's stack
\* is afterwards what it was before the drop.
C19_FreeUnderOwningContext ==
    last.op = "drop_mem" =>
        /\ \E i \in 1..Len(last.trace) :
              /\ last.trace[i].call = "cuMemFreeHost"
              /\ last.trace[i].cur = last.ctx
        /\ stack[last.thread] = last.pre

====
